---- MODULE Spec2Model ----
(***************************************************************************)
(* VanMoof S5 BLE client (src/main.py, src/sound.py, src/ride.py):         *)
(* credential loading, the authentication handshake of VanMoofClient and   *)
(* the command methods, as a state machine whose steps run from one await  *)
(* of the asyncio code to the next.                                        *)
(***************************************************************************)
EXTENDS Integers, Sequences, FiniteSets, TLC

(***************************************************************************)
(* Bytes and Python slices                                                 *)
(***************************************************************************)
Min(a, b) == IF a < b THEN a ELSE b

\* Python s[a:b] on a bytes object (0-based, end exclusive, clipped).
Slice(s, a, b) == SubSeq(s, a + 1, Min(b, Len(s)))

\* Python truthiness of an Optional[bytes]: None and b'' are both falsy.
\* None is a value no bytes object equals.
None == <<-1>>
Truthy(x) == x # None /\ x # <<>>

(***************************************************************************)
(* cbor2.loads, for the fragment of CBOR the frames and certificates use:  *)
(* unsigned integers, byte and text strings, definite and indefinite maps, *)
(* false / true / null.  A value is a record of one shape:                 *)
(*   t : "uint" | "bytes" | "text" | "map" | "bool" | "null" | "none"      *)
(*   n : the integer (or 1/0 for true/false)                               *)
(*   b : the bytes of a string                                             *)
(*   m : the entries of a map, a sequence of [k, v] in encounter order     *)
(* Decoding reads ONE item and ignores what follows it, as loads does.     *)
(***************************************************************************)
CborVal(t, n, b, m) == [t |-> t, n |-> n, b |-> b, m |-> m]
PyNone == CborVal("none", 0, <<>>, <<>>)
CborFail == [ok |-> FALSE, val |-> PyNone, next |-> 0]
CborOk(v, nx) == [ok |-> TRUE, val |-> v, next |-> nx]

\* Big-endian unsigned integer of the k bytes s[p..p+k-1].
RECURSIVE BeUint(_, _, _)
BeUint(s, p, k) == IF k = 0 THEN 0 ELSE BeUint(s, p, k - 1) * 256 + s[p + k - 1]

\* The argument of the head byte at s[p]: [ok, arg, next].
CborArg(s, p) ==
  LET info == s[p] % 32 IN
  IF info < 24 THEN [ok |-> TRUE, arg |-> info, next |-> p + 1]
  ELSE IF info = 24 /\ p + 1 <= Len(s) THEN [ok |-> TRUE, arg |-> s[p + 1], next |-> p + 2]
  ELSE IF info = 25 /\ p + 2 <= Len(s) THEN [ok |-> TRUE, arg |-> BeUint(s, p + 1, 2), next |-> p + 3]
  ELSE IF info = 26 /\ p + 4 <= Len(s) THEN [ok |-> TRUE, arg |-> BeUint(s, p + 1, 4), next |-> p + 5]
  ELSE [ok |-> FALSE, arg |-> 0, next |-> 0]

RECURSIVE CborItem(_, _)
RECURSIVE CborPairs(_, _, _, _)

\* Entries of a map from s[p]: `left` entries when left >= 0, up to the break
\* byte 0xFF when left = -1 (indefinite length).
CborPairs(s, p, left, acc) ==
  IF left = 0 THEN CborOk(CborVal("map", 0, <<>>, acc), p)
  ELSE IF p > Len(s) THEN CborFail
  ELSE IF left = -1 /\ s[p] = 255 THEN CborOk(CborVal("map", 0, <<>>, acc), p + 1)
  ELSE LET k == CborItem(s, p) IN
       IF ~k.ok THEN CborFail
       ELSE LET v == CborItem(s, k.next) IN
            IF ~v.ok THEN CborFail
            ELSE CborPairs(s, v.next, IF left = -1 THEN -1 ELSE left - 1,
                           Append(acc, [k |-> k.val, v |-> v.val]))

CborItem(s, p) ==
  IF p > Len(s) THEN CborFail
  ELSE
    LET major == s[p] \div 32
        info  == s[p] % 32
        a     == CborArg(s, p)
    IN
    CASE major = 0 ->
           IF a.ok THEN CborOk(CborVal("uint", a.arg, <<>>, <<>>), a.next) ELSE CborFail
      [] major \in {2, 3} ->
           IF a.ok /\ a.next + a.arg - 1 <= Len(s)
           THEN CborOk(CborVal(IF major = 2 THEN "bytes" ELSE "text", 0,
                               SubSeq(s, a.next, a.next + a.arg - 1), <<>>),
                       a.next + a.arg)
           ELSE CborFail
      [] major = 5 ->
           IF info = 31 THEN CborPairs(s, p + 1, -1, <<>>)
           ELSE IF a.ok THEN CborPairs(s, a.next, a.arg, <<>>)
           ELSE CborFail
      [] major = 7 ->
           IF info = 20 THEN CborOk(CborVal("bool", 0, <<>>, <<>>), p + 1)
           ELSE IF info = 21 THEN CborOk(CborVal("bool", 1, <<>>, <<>>), p + 1)
           ELSE IF info = 22 THEN CborOk(CborVal("null", 0, <<>>, <<>>), p + 1)
           ELSE CborFail
      [] OTHER -> CborFail

cbor2_loads(s) == CborItem(s, 1)

\* dict.get(key) for a text key: the value of the LAST entry with that key
\* (a later duplicate overwrites an earlier one), None when there is none.
RECURSIVE DictGetFrom(_, _, _)
DictGetFrom(m, key, i) ==
  IF i = 0 THEN PyNone
  ELSE IF m[i].k.t = "text" /\ m[i].k.b = key THEN m[i].v
  ELSE DictGetFrom(m, key, i - 1)

DictGet(d, key) == DictGetFrom(d.m, key, Len(d.m))

\* a faulty reading of `status == True`: `status is not None`
EqTrueNotNone(v) == v.t \in {"bool", "uint"}

\* Python `x == True` and `x == False` (1 == True and 0 == False hold too).
EqTrue(v)  == v.t \in {"bool", "uint"} /\ v.n = 1
EqFalse(v) == v.t \in {"bool", "uint"} /\ v.n = 0

\* Python truthiness of a decoded value (used by `if creds.expiry:`).
ValTruthy(v) ==
  CASE v.t = "none" -> FALSE
    [] v.t = "null" -> FALSE
    [] v.t \in {"bool", "uint"} -> v.n # 0
    [] v.t \in {"bytes", "text"} -> v.b # <<>>
    [] OTHER -> v.m # <<>>

(***************************************************************************)
(* Text keys as bytes                                                      *)
(***************************************************************************)
KeyAuth == <<97, 117, 116, 104>>     \* "auth"
KeyEnc  == <<101, 110, 99>>          \* "enc"
KeyP    == <<112>>                   \* "p"
KeyI    == <<105>>                   \* "i"
KeyF    == <<102>>                   \* "f"
KeyE    == <<101>>                   \* "e"
KeyR    == <<114>>                   \* "r"

(***************************************************************************)
(* Ed25519 (the cryptography package).  The curve arithmetic is replaced   *)
(* by deterministic byte functions of the same widths: a 32-byte public    *)
(* key derived from the 32-byte seed and a 64-byte signature that is a     *)
(* function of seed and message only.                                      *)
(***************************************************************************)
SeedLen == 32
SigLen  == 64

Ed25519Public(seed) == [k \in 1..SeedLen |-> (seed[k] * 7 + k) % 256]

Ed25519Sign(seed, msg) ==
  [k \in 1..SigLen |->
     (seed[((k - 1) % SeedLen) + 1] * 3
        + (IF msg = <<>> THEN 0 ELSE msg[((k - 1) % Len(msg)) + 1]) * 5 + k) % 256]

\* Ed25519PrivateKey.from_private_bytes accepts exactly 32 bytes.
load_private_key(raw) ==
  LET seed == Slice(raw, 0, SeedLen) IN
  IF Len(seed) = SeedLen THEN [ok |-> TRUE, seed |-> seed]
  ELSE [ok |-> FALSE, seed |-> <<>>]

(***************************************************************************)
(* Credentials                                                             *)
(***************************************************************************)
NoCreds == [private_key |-> <<>>, public_key |-> <<>>, ca_signature |-> <<>>,
            cert_cbor |-> <<>>, cert_id |-> PyNone, frame |-> PyNone,
            expiry |-> PyNone, role |-> PyNone]

\* a faulty comparison of the two keys: their lengths only
KeysMatchLength(cert_pubkey, public_key) ==
  cert_pubkey.t = "bytes" /\ Len(cert_pubkey.b) = Len(public_key)

\* cert_pubkey == public_key: equal bytes objects
KeysMatch(cert_pubkey, public_key) ==
  cert_pubkey.t = "bytes" /\ cert_pubkey.b = public_key

\* load_credentials: "ok" with the Credentials, "exit" for sys.exit(1) on a key
\* mismatch, "raise" for an exception that ends the process (a private key
\* shorter than 32 bytes, a certificate that does not decode to a map).
load_credentials(privkey_raw, cert_raw) ==
  LET key       == load_private_key(privkey_raw)
      publicKey == Ed25519Public(key.seed)
      ca_sig    == Slice(cert_raw, 0, 64)
      cert_cbor == Slice(cert_raw, 64, Len(cert_raw))
      dec       == cbor2_loads(cert_cbor)
      parsed    == dec.val
  IN
  IF ~key.ok \/ ~dec.ok \/ parsed.t # "map"
  THEN [status |-> "raise", creds |-> NoCreds]
  ELSE
    LET cert_pubkey == DictGet(parsed, KeyP)
        creds == [private_key |-> key.seed, public_key |-> publicKey,
                  ca_signature |-> ca_sig, cert_cbor |-> cert_cbor,
                  cert_id |-> DictGet(parsed, KeyI), frame |-> DictGet(parsed, KeyF),
                  expiry |-> DictGet(parsed, KeyE), role |-> DictGet(parsed, KeyR)]
    IN
    IF KeysMatch(cert_pubkey, publicKey)
    THEN [status |-> "ok", creds |-> creds]
    ELSE [status |-> "exit", creds |-> NoCreds]

(***************************************************************************)
(* Handshake packets and the decoders of VanMoofClient                     *)
(***************************************************************************)
\* a faulty certificate packet: the header byte of the bike's frames
build_auth_packet_rx(creds) ==
  <<128, 0, 169, 3>> \o creds.ca_signature \o creds.cert_cbor

build_auth_packet(creds) ==
  <<129, 0, 169, 3>> \o creds.ca_signature \o creds.cert_cbor

\* a faulty response: signed with the public key bytes as the key
build_challenge_response_pub(creds, challenge) ==
  <<129, 0, 64, 4>> \o Ed25519Sign(creds.public_key, challenge)

build_challenge_response(creds, challenge) ==
  <<129, 0, 64, 4>> \o Ed25519Sign(creds.private_key, challenge)

\* a faulty length test: 19 bytes are enough
parse_challenge_short(data) ==
  IF Len(data) >= 19 /\ data[3] = 16 /\ data[4] = 4 THEN Slice(data, 4, 20) ELSE None

parse_challenge(data) ==
  IF Len(data) >= 20 /\ data[3] = 16 /\ data[4] = 4 THEN Slice(data, 4, 20) ELSE None

\* The first offset k >= from (1-based) with data[k] = 0xBF whose tail decodes
\* decides the result; offsets whose tail does not decode are skipped.
RECURSIVE AuthStatusFrom(_, _)
AuthStatusFrom(data, k) ==
  IF k > Len(data) THEN PyNone
  ELSE IF data[k] = 191 /\ cbor2_loads(SubSeq(data, k, Len(data))).ok
       THEN DictGet(cbor2_loads(SubSeq(data, k, Len(data))).val, KeyAuth)
       ELSE AuthStatusFrom(data, k + 1)

parse_auth_status(data) == AuthStatusFrom(data, 1)

\* echo = bytearray(init); echo[0] = 0x81
EchoOf(initFrame) == <<129>> \o Slice(initFrame, 1, Len(initFrame))

(***************************************************************************)
(* Inputs: the key and certificate arguments of main(), after base64       *)
(* decoding, and the frames the bike sends.                                *)
(***************************************************************************)
Seed1 == [k \in 1..SeedLen |-> k]
Seed2 == [k \in 1..SeedLen |-> 100 + k]
\* the 64-byte private key form: seed followed by 32 more bytes
Seed1Long == Seed1 \o [k \in 1..SeedLen |-> 200]
SeedShort == SubSeq(Seed1, 1, 16)

KeyInputs == {Seed1, Seed1Long, Seed2, SeedShort}

CaSig == [k \in 1..64 |-> (k * 5) % 256]

Be32(n) == <<(n \div 16777216) % 256, (n \div 65536) % 256, (n \div 256) % 256, n % 256>>

\* wall-clock time of the run and two expiry timestamps around it
Now        == 1700 * 1000000
ExpiryPast == 1600 * 1000000
ExpiryNext == 1900 * 1000000

\* [64-byte CA signature] ++ CBOR {i: 42, f: "S5", r: 7, p: pub, e: expiry}
CertWith(pub, expiry) ==
  CaSig \o <<165, 97, 105, 24, 42, 97, 102, 98, 83, 53, 97, 114, 7,
             97, 112, 88, 32>> \o pub \o <<97, 101, 26>> \o Be32(expiry)

\* the same certificate without the optional e field
CertNoExpiry(pub) ==
  CaSig \o <<164, 97, 105, 24, 42, 97, 102, 98, 83, 53, 97, 114, 7,
             97, 112, 88, 32>> \o pub

CertValid     == CertWith(Ed25519Public(Seed1), ExpiryNext)
CertExpired   == CertWith(Ed25519Public(Seed1), ExpiryPast)
CertTruncated == SubSeq(CertValid, 1, 80)

CertInputs == {CertValid, CertExpired, CertTruncated}

\* 80 00 0D 05 BF "enc" false "auth" false FF : the bike's opening status
InitFrame == <<128, 0, 13, 5, 191, 99, 101, 110, 99, 244, 100, 97, 117, 116, 104, 244, 255>>
\* 81 00 0D 05 BF "enc" true "auth" true FF
AuthTrueFrame == <<129, 0, 13, 5, 191, 99, 101, 110, 99, 245, 100, 97, 117, 116, 104, 245, 255>>
\* 82 00 10 04 followed by the 16 challenge bytes
ChallengeFrame == <<130, 0, 16, 4>> \o [k \in 1..16 |-> 16 + k]
\* 81 00 07 01 00 : a command response, no structured payload
AckFrame == <<129, 0, 7, 1, 0>>

PeerFrames == {InitFrame, AuthTrueFrame, ChallengeFrame, AckFrame}

(***************************************************************************)
(* Command frames (main.py, sound.py, ride.py)                             *)
(***************************************************************************)
UnlockCmd        == <<129, 0, 3, 1, 0, 160, 1>>
\* a faulty lock frame: the unlock frame copied unchanged
LockCmdCopied    == UnlockCmd
LockCmd          == <<129, 0, 3, 1, 0, 160, 0>>
ArmAlarmCmd      == <<129, 0, 3, 1, 1, 160, 1>>
DisarmAlarmCmd   == <<129, 0, 3, 1, 1, 160, 0>>
TriggerAlarmCmd  == <<129, 0, 3, 1, 2, 160, 1>>
PlaySoundCmd(sound_id) == <<129, 0, 3, 1, 0, 33, sound_id>>
PowerLevelCmd(level)   == <<129, 0, 3, 1, 0, 103, level>>
LightModes       == [off |-> 0, on |-> 1, auto |-> 3]
LightsCmd(mode)  == <<129, 0, 3, 1, 0, 107, LightModes[mode]>>
BellDingCmd      == <<129, 0, 3, 2, 0, 160, 1>>
BellDoubleCmd    == <<129, 0, 3, 2, 0, 160, 2>>
HornCmd          == <<129, 0, 3, 2, 1, 160, 1>>
PowerOnCmd       == <<129, 0, 3, 3, 0, 160, 1>>
PowerOffCmd      == <<129, 0, 3, 3, 0, 160, 0>>
EnableBoostCmd   == <<129, 0, 3, 3, 1, 160, 1>>
DisableBoostCmd  == <<129, 0, 3, 3, 1, 160, 0>>

\* str.lower() on the mode strings the caller passes
ModeInputs == {"off", "on", "auto", "AUTO", "blink"}
Lower(mode) ==
  CASE mode = "AUTO" -> "auto"
    [] OTHER         -> mode

\* the operations that take no argument
PlainOps == {"unlock", "lock", "arm_alarm", "disarm_alarm", "trigger_alarm_sound",
             "bell_ding", "bell_double_ding", "horn_sound", "power_on_bike",
             "power_off_bike", "enable_boost", "disable_boost"}

\* every call the caller can make: [op, n (integer argument), mode (string argument)]
Call(op, n, mode) == [op |-> op, n |-> n, mode |-> mode]
SoundIds    == {1, 2}
LevelInputs == -1..5
Calls ==
  {Call(op, 0, "") : op \in PlainOps}
    \cup {Call("play_sound", n, "") : n \in SoundIds}
    \cup {Call("set_power_level", n, "") : n \in LevelInputs}
    \cup {Call("set_lights", 0, m) : m \in ModeInputs}

\* a faulty range check: level 5 passes
PowerLevelOkToFive(level) == ~(level < 0 \/ level > 5)

\* if level < 0 or level > 4: the check fails
PowerLevelOk(level) == ~(level < 0 \/ level > 4)

\* the parameter check of set_power_level and set_lights
ParamOk(c) ==
  CASE c.op = "set_power_level" -> PowerLevelOk(c.n)
    [] c.op = "set_lights"      -> Lower(c.mode) \in DOMAIN LightModes
    [] OTHER                    -> TRUE

\* cmd = bytes([...]) of each operation
CmdFrame(c) ==
  CASE c.op = "unlock"              -> UnlockCmd
    [] c.op = "lock"                -> LockCmd
    [] c.op = "arm_alarm"           -> ArmAlarmCmd
    [] c.op = "disarm_alarm"        -> DisarmAlarmCmd
    [] c.op = "trigger_alarm_sound" -> TriggerAlarmCmd
    [] c.op = "play_sound"          -> PlaySoundCmd(c.n)
    [] c.op = "set_power_level"     -> PowerLevelCmd(c.n)
    [] c.op = "set_lights"          -> LightsCmd(Lower(c.mode))
    [] c.op = "bell_ding"           -> BellDingCmd
    [] c.op = "bell_double_ding"    -> BellDoubleCmd
    [] c.op = "horn_sound"          -> HornCmd
    [] c.op = "power_on_bike"       -> PowerOnCmd
    [] c.op = "power_off_bike"      -> PowerOffCmd
    [] c.op = "enable_boost"        -> EnableBoostCmd
    [] c.op = "disable_boost"       -> DisableBoostCmd

\* the label each operation passes to send
CmdLabel(c) ==
  CASE c.op = "unlock"              -> "unlock"
    [] c.op = "lock"                -> "lock"
    [] c.op = "arm_alarm"           -> "arm alarm"
    [] c.op = "disarm_alarm"        -> "disarm alarm"
    [] c.op = "trigger_alarm_sound" -> "trigger alarm"
    [] c.op = "play_sound"          -> "sound"
    [] c.op = "set_power_level"     -> "power " \o ToString(c.n)
    [] c.op = "set_lights"          -> "lights " \o Lower(c.mode)
    [] c.op = "bell_ding"           -> "bell ding"
    [] c.op = "bell_double_ding"    -> "bell double ding"
    [] c.op = "horn_sound"          -> "horn sound"
    [] c.op = "power_on_bike"       -> "power on"
    [] c.op = "power_off_bike"      -> "power off"
    [] c.op = "enable_boost"        -> "enable boost"
    [] c.op = "disable_boost"       -> "disable boost"

(***************************************************************************)
(* State                                                                   *)
(***************************************************************************)
VARIABLES
  pc,            \* where main() / the running coroutine is suspended
  creds,         \* the loaded Credentials
  mac,           \* main's mac: "none" or "addr", the address from --mac or the scan
  link,          \* the BLE link is up (client.is_connected)
  connected,     \* VanMoofClient.connected
  authenticated, \* VanMoofClient.authenticated
  responses,     \* VanMoofClient.responses, the asyncio.Queue of inbound frames
  tx,            \* the frames the operation in progress (or the last one) handed
                 \* to client.write_gatt_char, in order
  init,          \* authenticate's local `init`
  tries,         \* iterations completed by the receive loop in progress
  authRet,       \* which return of authenticate was taken
  report,        \* the last command call: the error it printed, "started" or "done"
  ncalls,        \* number of command calls made
  nrx,           \* number of notifications delivered
  settleRx,      \* frames dequeued by the settle-window loop of authenticate
  chalRx,        \* frames dequeued by the challenge loop
  confRx,        \* frames dequeued by the confirmation loop
  collRx,        \* frames dequeued by the collect loop of the command in progress
  lostAt         \* pc at the moment the disconnect callback fired

vars == <<pc, creds, mac, link, connected, authenticated, responses, tx, init,
          tries, authRet, report, ncalls, nrx, settleRx, chalRx, confRx, collRx, lostAt>>

\* bounds of the exploration
MaxNotify == 3
MaxCalls  == 2

\* a faulty confirmation loop: one attempt more
ConfirmTriesSix == 5 + 1
\* a faulty challenge loop: one attempt more
ChallengeTriesEleven == 10 + 1
\* a faulty collect loop: one attempt more
CollectTriesFour == 3 + 1

\* range(10), range(5) and range(3) of the receive loops
ChallengeTries == 10
ConfirmTries   == 5
CollectTries   == 3

AuthPcs == {"a_sleep", "a_drain", "a_echo", "a_chal", "a_conf"}
CmdPcs  == {"c_sleep", "c_recv"}

Init ==
  /\ pc = "start"
  /\ creds = NoCreds
  /\ mac = "none"
  /\ link = FALSE
  /\ connected = FALSE
  /\ authenticated = FALSE
  /\ responses = <<>>
  /\ tx = <<>>
  /\ init = None
  /\ tries = 0
  /\ authRet = "none"
  /\ report = "none"
  /\ ncalls = 0
  /\ nrx = 0
  /\ settleRx = <<>>
  /\ chalRx = <<>>
  /\ confRx = <<>>
  /\ collRx = <<>>
  /\ lostAt = "none"

(***************************************************************************)
(* send and recv                                                           *)
(***************************************************************************)
\* VanMoofClient.send: nothing reaches write_gatt_char when connected is false;
\* otherwise the frame is handed to it.  An exception of write_gatt_char is
\* caught inside send, and no caller reads the value send returns.
\* The value is the log with the frame added; `by` names the caller of send.
\* a faulty send: the connected test left out
send_unchecked(log, data, label, by) ==
  Append(log, [data |-> data, label |-> label, by |-> by])

send(log, data, label, by) ==
  IF ~connected THEN log
  ELSE Append(log, [data |-> data, label |-> label, by |-> by])

\* VanMoofClient.recv: the head of the queue, or None after the timeout when
\* the queue stayed empty.
recv == IF responses = <<>> THEN [msg |-> None, rest |-> responses]
        ELSE [msg |-> Head(responses), rest |-> Tail(responses)]

(***************************************************************************)
(* main(): credentials, scan, connect                                      *)
(***************************************************************************)
LoadCredentials(key, cert) ==
  /\ pc = "start"
  /\ LET r == load_credentials(key, cert) IN
       /\ creds' = r.creds
       /\ pc' = CASE r.status = "ok"   -> "loaded"
                  [] r.status = "exit" -> "exit"
                  [] OTHER             -> "raised"
  /\ UNCHANGED <<mac, link, connected, authenticated, responses, tx, init, tries,
                 authRet, report, ncalls, nrx, settleRx, chalRx, confRx, collRx, lostAt>>

\* main --scan: scan for bikes and return, no credentials involved
ScanOnly ==
  /\ pc = "start"
  /\ pc' = "end"
  /\ UNCHANGED <<creds, mac, link, connected, authenticated, responses, tx, init, tries,
                 authRet, report, ncalls, nrx, settleRx, chalRx, confRx, collRx, lostAt>>

\* mac = args.mac or await client.scan(); no bike found ends main
ResolveMac(given, found) ==
  /\ pc = "loaded"
  /\ IF given \/ found THEN mac' = "addr" /\ pc' = "resolved"
     ELSE mac' = "none" /\ pc' = "end"
  /\ UNCHANGED <<creds, link, connected, authenticated, responses, tx, init, tries,
                 authRet, report, ncalls, nrx, settleRx, chalRx, confRx, collRx, lostAt>>

\* VanMoofClient.connect; a failure makes main return through its finally,
\* whose client.disconnect() fires the disconnect callback.
Connect(outcome) ==
  /\ pc = "resolved"
  /\ IF outcome = "ok"
     THEN link' = TRUE /\ connected' = TRUE /\ pc' = "idle"
     ELSE link' = FALSE /\ connected' = FALSE /\ pc' = "end"
  /\ UNCHANGED <<creds, mac, authenticated, responses, tx, init, tries,
                 authRet, report, ncalls, nrx, settleRx, chalRx, confRx, collRx, lostAt>>

\* leaving main: finally: await client.disconnect()
Quit ==
  /\ pc = "idle"
  /\ pc' = "end"
  /\ link' = FALSE
  /\ connected' = IF link THEN FALSE ELSE connected
  /\ UNCHANGED <<creds, mac, authenticated, responses, tx, init, tries,
                 authRet, report, ncalls, nrx, settleRx, chalRx, confRx, collRx, lostAt>>

(***************************************************************************)
(* Transport callbacks                                                     *)
(***************************************************************************)
\* a faulty callback: put_nowait inside the branches that recognise a frame
OnNotifyRecognised(data) ==
  /\ link
  /\ nrx < MaxNotify
  /\ responses' = IF Len(data) >= 4 /\ <<data[3], data[4]>> \in {<<13, 5>>, <<16, 4>>}
                  THEN Append(responses, data) ELSE responses
  /\ nrx' = nrx + 1
  /\ UNCHANGED <<pc, creds, mac, link, connected, authenticated, tx, init, tries,
                 authRet, report, ncalls, settleRx, chalRx, confRx, collRx, lostAt>>

\* _on_notify: every frame is put on the queue
OnNotify(data) ==
  /\ link
  /\ nrx < MaxNotify
  /\ responses' = Append(responses, data)
  /\ nrx' = nrx + 1
  /\ UNCHANGED <<pc, creds, mac, link, connected, authenticated, tx, init, tries,
                 authRet, report, ncalls, settleRx, chalRx, confRx, collRx, lostAt>>

\* _on_disconnect
OnDisconnect ==
  /\ link
  /\ link' = FALSE
  /\ connected' = FALSE
  /\ lostAt' = pc
  /\ UNCHANGED <<pc, creds, mac, authenticated, responses, tx, init, tries,
                 authRet, report, ncalls, nrx, settleRx, chalRx, confRx, collRx>>

(***************************************************************************)
(* VanMoofClient.authenticate, one action per resumption                   *)
(***************************************************************************)
\* the caller recorded with the frames authenticate writes
AuthCall == Call("authenticate", 0, "")

\* a faulty return: `self.authenticated = True` left out
AuthReturnFlagUnset(ret) ==
  /\ pc' = "idle"
  /\ authRet' = ret
  /\ UNCHANGED authenticated

\* authenticate returns: authenticated is set on the two `return True`
AuthReturn(ret) ==
  /\ pc' = "idle"
  /\ authRet' = ret
  /\ authenticated' = (ret = "authenticated")

\* main calls authenticate once, right after connect
AuthStart ==
  /\ pc = "idle"
  /\ authRet = "none"
  /\ pc' = "a_sleep"
  /\ UNCHANGED <<creds, mac, link, connected, authenticated, responses, tx, init,
                 tries, authRet, report, ncalls, nrx, settleRx, chalRx, confRx, collRx, lostAt>>

\* await asyncio.sleep(0.3); init = None
AuthSettle ==
  /\ pc = "a_sleep"
  /\ pc' = "a_drain"
  /\ init' = None
  /\ UNCHANGED <<creds, mac, link, connected, authenticated, responses, tx,
                 tries, authRet, report, ncalls, nrx, settleRx, chalRx, confRx, collRx, lostAt>>

\* a faulty settle step: each frame of the settle window is examined, and one
\* with auth status true ends the run authenticated
AuthDrainExamines ==
  /\ pc = "a_drain"
  /\ responses' = recv.rest
  /\ IF Truthy(recv.msg)
     THEN /\ init' = recv.msg
          /\ settleRx' = Append(settleRx, recv.msg)
          /\ IF EqTrue(parse_auth_status(recv.msg))
             THEN AuthReturn("authenticated") /\ UNCHANGED <<tx, tries>>
             ELSE UNCHANGED <<pc, tx, tries, authRet, authenticated>>
     ELSE /\ UNCHANGED <<init, settleRx>>
          /\ IF ~connected
             THEN AuthReturn("disconnected") /\ UNCHANGED <<tx, tries>>
             ELSE IF Truthy(init)
             THEN /\ tx' = send(tx, EchoOf(init), "echo", AuthCall)
                  /\ pc' = "a_echo"
                  /\ UNCHANGED <<tries, authRet, authenticated>>
             ELSE /\ tx' = send(tx, build_auth_packet(creds), "certificate", AuthCall)
                  /\ pc' = "a_chal"
                  /\ tries' = 0
                  /\ UNCHANGED <<authRet, authenticated>>
  /\ UNCHANGED <<creds, mac, link, connected, report, ncalls, nrx, chalRx, confRx, collRx, lostAt>>

\* a faulty settle step: no sleep between the echo and the certificate, both
\* are written on the same resumption
AuthDrainNoDelay ==
  /\ pc = "a_drain"
  /\ responses' = recv.rest
  /\ IF Truthy(recv.msg)
     THEN /\ init' = recv.msg
          /\ settleRx' = Append(settleRx, recv.msg)
          /\ UNCHANGED <<pc, tx, tries, authRet, authenticated>>
     ELSE /\ UNCHANGED <<init, settleRx>>
          /\ IF ~connected
             THEN AuthReturn("disconnected") /\ UNCHANGED <<tx, tries>>
             ELSE /\ tx' = send(IF Truthy(init) THEN send(tx, EchoOf(init), "echo", AuthCall) ELSE tx,
                                build_auth_packet(creds), "certificate", AuthCall)
                  /\ pc' = "a_chal"
                  /\ tries' = 0
                  /\ UNCHANGED <<authRet, authenticated>>
  /\ UNCHANGED <<creds, mac, link, connected, report, ncalls, nrx, chalRx, confRx, collRx, lostAt>>

\* the `while True` loop: msg = await self.recv(0.5); on a falsy msg the loop
\* ends, the connection is checked, the init is echoed or, with no init, the
\* certificate is sent and the challenge loop entered
AuthDrain ==
  /\ pc = "a_drain"
  /\ responses' = recv.rest
  /\ IF Truthy(recv.msg)
     THEN /\ init' = recv.msg
          /\ settleRx' = Append(settleRx, recv.msg)
          /\ UNCHANGED <<pc, tx, tries, authRet, authenticated>>
     ELSE /\ UNCHANGED <<init, settleRx>>
          /\ IF ~connected
             THEN AuthReturn("disconnected") /\ UNCHANGED <<tx, tries>>
             ELSE IF Truthy(init)
             THEN /\ tx' = send(tx, EchoOf(init), "echo", AuthCall)
                  /\ pc' = "a_echo"
                  /\ UNCHANGED <<tries, authRet, authenticated>>
             ELSE /\ tx' = send(tx, build_auth_packet(creds), "certificate", AuthCall)
                  /\ pc' = "a_chal"
                  /\ tries' = 0
                  /\ UNCHANGED <<authRet, authenticated>>
  /\ UNCHANGED <<creds, mac, link, connected, report, ncalls, nrx, chalRx, confRx, collRx, lostAt>>

\* a faulty step: the certificate is not sent after the echo
AuthCertificateSkipped ==
  /\ pc = "a_echo"
  /\ IF ~connected
     THEN AuthReturn("disconnected") /\ UNCHANGED tries
     ELSE pc' = "a_chal" /\ tries' = 0 /\ UNCHANGED <<authRet, authenticated>>
  /\ UNCHANGED <<creds, mac, link, connected, responses, tx, init, report, ncalls, nrx,
                 settleRx, chalRx, confRx, collRx, lostAt>>

\* after await asyncio.sleep(0.1): send the certificate, enter the challenge
\* loop, whose first iteration checks the connection
AuthCertificate ==
  /\ pc = "a_echo"
  /\ tx' = send(tx, build_auth_packet(creds), "certificate", AuthCall)
  /\ IF ~connected
     THEN AuthReturn("disconnected") /\ UNCHANGED tries
     ELSE pc' = "a_chal" /\ tries' = 0 /\ UNCHANGED <<authRet, authenticated>>
  /\ UNCHANGED <<creds, mac, link, connected, responses, init, report, ncalls, nrx,
                 settleRx, chalRx, confRx, collRx, lostAt>>

\* a faulty iteration end: `return False` (reported as a rejection) where
\* the loop should go on
ChallengeNextReturns == AuthReturn("rejected") /\ UNCHANGED tries

\* the end of one iteration of `for _ in range(10)` that found nothing: the
\* loop is exhausted, or the next iteration checks the connection and waits
ChallengeNext ==
  IF tries + 1 >= ChallengeTries
  THEN AuthReturn("no_challenge") /\ tries' = tries + 1
  ELSE IF ~connected
  THEN AuthReturn("disconnected") /\ UNCHANGED tries
  ELSE tries' = tries + 1 /\ UNCHANGED <<pc, authRet, authenticated>>

\* resp = await self.recv(1.0) in the challenge loop
AuthChallenge ==
  /\ pc = "a_chal"
  /\ responses' = recv.rest
  /\ IF ~Truthy(recv.msg)
     THEN ChallengeNext /\ UNCHANGED <<tx, chalRx>>
     ELSE /\ chalRx' = Append(chalRx, recv.msg)
          /\ IF Truthy(parse_challenge(recv.msg))
             THEN /\ tx' = send(tx, build_challenge_response(creds, parse_challenge(recv.msg)),
                                "response", AuthCall)
                  /\ pc' = "a_conf"
                  /\ tries' = 0
                  /\ UNCHANGED <<authRet, authenticated>>
             ELSE IF EqTrue(parse_auth_status(recv.msg))
             THEN AuthReturn("authenticated") /\ UNCHANGED <<tx, tries>>
             ELSE ChallengeNext /\ UNCHANGED tx
  /\ UNCHANGED <<creds, mac, link, connected, init, report, ncalls, nrx,
                 settleRx, confRx, collRx, lostAt>>

\* a faulty iteration end: the first attempt that decides nothing gives up
ConfirmNextReturns == AuthReturn("no_confirmation") /\ tries' = tries + 1

\* the end of one iteration of `for _ in range(5)` that decided nothing
ConfirmNext ==
  IF tries + 1 >= ConfirmTries
  THEN AuthReturn("no_confirmation") /\ tries' = tries + 1
  ELSE tries' = tries + 1 /\ UNCHANGED <<pc, authRet, authenticated>>

\* resp = await self.recv(1.0) in the confirmation loop
AuthConfirm ==
  /\ pc = "a_conf"
  /\ responses' = recv.rest
  /\ IF ~Truthy(recv.msg)
     THEN ConfirmNext /\ UNCHANGED confRx
     ELSE /\ confRx' = Append(confRx, recv.msg)
          /\ IF EqTrue(parse_auth_status(recv.msg))
             THEN AuthReturn("authenticated") /\ UNCHANGED tries
             ELSE IF EqFalse(parse_auth_status(recv.msg))
             THEN AuthReturn("rejected") /\ UNCHANGED tries
             ELSE ConfirmNext
  /\ UNCHANGED <<creds, mac, link, connected, tx, init, report, ncalls, nrx,
                 settleRx, chalRx, collRx, lostAt>>

(***************************************************************************)
(* The command operations                                                  *)
(***************************************************************************)
\* a faulty guard: the connection flag tested in place of authenticated
GuardConnected == connected

\* `if not client.authenticated: return` lets the command pass when this holds
GuardAuthenticated == authenticated

\* what the failed parameter check prints
ParamReport(c) ==
  IF c.op = "set_power_level" THEN "Power level must be 0-4"
  ELSE "Light mode must be: off, on, or auto"

\* the call of a command: the two guards, then send and await asyncio.sleep(0.5).
\* Commands are called once authenticate has returned: by main's menu after a
\* success, by any other caller of the class after either result.  The logs
\* start afresh with each call, and authenticate's local is gone.
Command(c) ==
  /\ pc = "idle"
  /\ authRet # "none"
  /\ ncalls < MaxCalls
  /\ ncalls' = ncalls + 1
  /\ init' = None
  /\ settleRx' = <<>> /\ chalRx' = <<>> /\ confRx' = <<>> /\ collRx' = <<>>
  /\ IF ~GuardAuthenticated
     THEN report' = "Not authenticated" /\ tx' = <<>> /\ UNCHANGED pc
     ELSE IF ~ParamOk(c)
     THEN report' = ParamReport(c) /\ tx' = <<>> /\ UNCHANGED pc
     ELSE /\ report' = "started"
          /\ tx' = send(<<>>, CmdFrame(c), CmdLabel(c), c)
          /\ pc' = "c_sleep"
  /\ UNCHANGED <<creds, mac, link, connected, authenticated, responses, tries,
                 authRet, nrx, lostAt>>

\* after the sleep the collect loop starts
CommandSlept ==
  /\ pc = "c_sleep"
  /\ pc' = "c_recv"
  /\ tries' = 0
  /\ UNCHANGED <<creds, mac, link, connected, authenticated, responses, tx, init,
                 authRet, report, ncalls, nrx, settleRx, chalRx, confRx, collRx, lostAt>>

\* a faulty collect loop: a timeout is taken for a lost connection
CommandCollectMarksLost ==
  /\ pc = "c_recv"
  /\ responses' = recv.rest
  /\ collRx' = IF recv.msg = None THEN collRx ELSE Append(collRx, recv.msg)
  /\ connected' = IF recv.msg = None THEN FALSE ELSE connected
  /\ IF ~Truthy(recv.msg) \/ tries + 1 >= CollectTries
     THEN pc' = "idle" /\ report' = "done" /\ UNCHANGED tries
     ELSE tries' = tries + 1 /\ UNCHANGED <<pc, report>>
  /\ UNCHANGED <<creds, mac, link, authenticated, tx, init,
                 authRet, ncalls, nrx, settleRx, chalRx, confRx, lostAt>>

\* for _ in range(3): resp = await client.recv(0.5); if not resp: break
CommandCollect ==
  /\ pc = "c_recv"
  /\ responses' = recv.rest
  /\ collRx' = IF recv.msg = None THEN collRx ELSE Append(collRx, recv.msg)
  /\ IF ~Truthy(recv.msg) \/ tries + 1 >= CollectTries
     THEN pc' = "idle" /\ report' = "done" /\ UNCHANGED tries
     ELSE tries' = tries + 1 /\ UNCHANGED <<pc, report>>
  /\ UNCHANGED <<creds, mac, link, connected, authenticated, tx, init,
                 authRet, ncalls, nrx, settleRx, chalRx, confRx, lostAt>>

(***************************************************************************)
(* Specification                                                           *)
(***************************************************************************)
Next ==
  \/ \E key \in KeyInputs, cert \in CertInputs : LoadCredentials(key, cert)
  \/ ScanOnly
  \/ \E given \in BOOLEAN, found \in BOOLEAN : ResolveMac(given, found)
  \/ \E outcome \in {"ok", "connect_failed", "notify_failed"} : Connect(outcome)
  \/ Quit
  \/ \E data \in PeerFrames : OnNotify(data)
  \/ OnDisconnect
  \/ AuthStart
  \/ AuthSettle
  \/ AuthDrain
  \/ AuthCertificate
  \/ AuthChallenge
  \/ AuthConfirm
  \/ \E c \in Calls : Command(c)
  \/ CommandSlept
  \/ CommandCollect

Spec == Init /\ [][Next]_vars

(***************************************************************************)
(* The challenge wait on its own: authenticate has sent the certificate    *)
(* and is suspended in the first recv of the challenge loop, with one      *)
(* frame of any shape waiting in the queue.                                *)
(***************************************************************************)
\* a frame of n bytes: two header bytes, group, subcommand, then a payload
FrameOf(n, b0, b1, group, sub) ==
  [k \in 1..n |-> CASE k = 1 -> b0
                    [] k = 2 -> b1
                    [] k = 3 -> group
                    [] k = 4 -> sub
                    [] OTHER -> (7 * k) % 256]

FrameLens == {0, 1, 3, 4, 19, 20, 21, 24}

FrameInputs ==
  {FrameOf(n, h[1], h[2], t[1], t[2]) :
     n \in FrameLens,
     h \in {<<128, 0>>, <<129, 7>>, <<130, 255>>},
     t \in {<<16, 4>>, <<16, 5>>, <<13, 4>>, <<4, 16>>}}

\* the Credentials of a matching key and certificate
LoadedCreds == load_credentials(Seed1, CertValid).creds

WaitInit ==
  /\ pc = "a_chal"
  /\ creds = LoadedCreds
  /\ mac = "addr"
  /\ link = TRUE
  /\ connected = TRUE
  /\ authenticated = FALSE
  /\ \E f \in FrameInputs : responses = <<f>>
  /\ tx = <<[data |-> build_auth_packet(LoadedCreds), label |-> "certificate", by |-> AuthCall]>>
  /\ init = None
  /\ tries = 0
  /\ authRet = "none"
  /\ report = "none"
  /\ ncalls = 0
  /\ nrx = 1
  /\ settleRx = <<>>
  /\ chalRx = <<>>
  /\ confRx = <<>>
  /\ collRx = <<>>
  /\ lostAt = "none"

\* the handshake goes on; the bike may add status and command frames
WaitNext ==
  \/ AuthChallenge
  \/ AuthConfirm
  \/ \E data \in {AuthTrueFrame, AckFrame} : OnNotify(data)
  \/ OnDisconnect

WaitSpec == WaitInit /\ [][WaitNext]_vars

(***************************************************************************)
(* The authenticated session on its own: authenticate has returned True on *)
(* an early auth=true frame, and the bike has sent further frames that     *)
(* wait in the queue when the commands are called.                         *)
(***************************************************************************)
MaxQueue == 4

\* n waiting frames, command responses and status frames in turn
QueueOf(n) == [k \in 1..n |-> IF k % 2 = 1 THEN AckFrame ELSE InitFrame]

SessionInit ==
  /\ pc = "idle"
  /\ creds = LoadedCreds
  /\ mac = "addr"
  /\ link = TRUE
  /\ connected = TRUE
  /\ authenticated = TRUE
  /\ \E n \in 0..MaxQueue : responses = QueueOf(n) /\ nrx = n + 1
  /\ tx = <<[data |-> build_auth_packet(LoadedCreds), label |-> "certificate", by |-> AuthCall]>>
  /\ init = None
  /\ tries = 0
  /\ authRet = "authenticated"
  /\ report = "none"
  /\ ncalls = 0
  /\ settleRx = <<>>
  /\ chalRx = <<AuthTrueFrame>>
  /\ confRx = <<>>
  /\ collRx = <<>>
  /\ lostAt = "none"

SessionNext ==
  \/ \E c \in Calls : Command(c)
  \/ CommandSlept
  \/ CommandCollect
  \/ \E data \in PeerFrames : OnNotify(data)
  \/ OnDisconnect
  \/ Quit

SessionSpec == SessionInit /\ [][SessionNext]_vars

(***************************************************************************)
(* The delay after the echo on its own: authenticate has echoed the init   *)
(* frame and is suspended in asyncio.sleep(0.1); every frame the bike      *)
(* sends in this run has arrived by now and waits in the queue, and no     *)
(* notification follows.                                                   *)
(***************************************************************************)
MaxPending == 3

\* the sequences of at most n peer frames
RECURSIVE FrameSeqs(_)
FrameSeqs(n) ==
  IF n = 0 THEN {<<>>}
  ELSE FrameSeqs(n - 1) \cup
       {Append(q, f) : q \in {r \in FrameSeqs(n - 1) : Len(r) = n - 1}, f \in PeerFrames}

DelayInit ==
  /\ pc = "a_echo"
  /\ creds = LoadedCreds
  /\ mac = "addr"
  /\ link = TRUE
  /\ connected = TRUE
  /\ authenticated = FALSE
  /\ responses \in FrameSeqs(MaxPending)
  /\ nrx = 1 + Len(responses)
  /\ tx = <<[data |-> EchoOf(InitFrame), label |-> "echo", by |-> AuthCall]>>
  /\ init = InitFrame
  /\ tries = 0
  /\ authRet = "none"
  /\ report = "none"
  /\ ncalls = 0
  /\ settleRx = <<InitFrame>>
  /\ chalRx = <<>>
  /\ confRx = <<>>
  /\ collRx = <<>>
  /\ lostAt = "none"

DelayNext ==
  \/ AuthCertificate
  \/ AuthChallenge
  \/ AuthConfirm
  \/ OnDisconnect

DelaySpec == DelayInit /\ [][DelayNext]_vars

(***************************************************************************)
(* Properties                                                              *)
(***************************************************************************)
Last(q) == q[Len(q)]

\* authenticate has returned and its logs are still those of its run
AuthDone == authRet # "none" /\ ncalls = 0 /\ pc \in {"idle", "end"}

IsChallenge(f) == Len(f) >= 20 /\ f[3] = 16 /\ f[4] = 4
StatusTrue(f)  == EqTrue(parse_auth_status(f))
StatusFalse(f) == EqFalse(parse_auth_status(f))
Labels(log)    == {log[k].label : k \in DOMAIN log}

\* C1: every command operation called while authenticated = false reports
\* "Not authenticated" and does nothing else: it writes no frame, dequeues
\* no inbound frame, leaves connected and authenticated as they were and
\* returns at once.
C1_NotAuthenticatedNoOp ==
  [][(ncalls' # ncalls /\ ~authenticated) =>
       \A c \in Calls :
         Command(c) =>
           /\ report' = "Not authenticated"
           /\ tx' = <<>> /\ collRx' = <<>>
           /\ responses' = responses
           /\ connected' = connected
           /\ authenticated' = authenticated
           /\ pc' = "idle"]_vars

\* a call was refused for lack of authentication on a connected session
\* with frames waiting in the queue
C1_Witness ==
  /\ report = "Not authenticated" /\ ncalls = MaxCalls
  /\ connected /\ responses # <<>> /\ ~authenticated

\* C2: on a session that stays connected the outcome of authenticate is
\* fixed by the frames it dequeues: init frame, challenge frame, auth=true
\* frame ends authenticated; with an auth=false frame in place of the last
\* it ends rejected; with no challenge and no status frame at all it ends
\* timed out (no challenge); the flag is true only in the first case.
C2_ScriptedOutcome ==
  (AuthDone /\ link /\ settleRx = <<InitFrame>>) =>
     /\ (chalRx = <<ChallengeFrame>> /\ confRx = <<AuthTrueFrame>>)
          => (authRet = "authenticated" /\ authenticated)
     /\ (chalRx = <<ChallengeFrame>> /\ confRx = <<InitFrame>>)
          => (authRet = "rejected" /\ ~authenticated)
     /\ (chalRx = <<>> /\ confRx = <<>>)
          => (authRet = "no_challenge" /\ ~authenticated /\ tries = 10)

C2_Witness ==
  /\ AuthDone /\ link /\ settleRx = <<InitFrame>>
  /\ chalRx = <<ChallengeFrame>> /\ confRx = <<AuthTrueFrame>>
  /\ authenticated

\* C3 (as claimed): once the disconnect callback has fired during a run of
\* authenticate, in whichever step, the run does not end authenticated.
C3_AbortOnDisconnect ==
  lostAt \in AuthPcs => (~authenticated /\ authRet # "authenticated")

\* C4 (as claimed): the certificate packet and the challenge response start
\* with the header byte of the last frame received in the settle window.
C4_EchoHeader ==
  \A k \in DOMAIN tx :
    (tx[k].label \in {"certificate", "response"} /\ settleRx # <<>>)
      => tx[k].data[1] = Last(settleRx)[1]

\* C5: in the challenge wait, a dequeued frame with auth status true, when
\* no challenge frame has been dequeued up to and including it, ends the run
\* at once: it is the last frame the run dequeues, authenticated is true,
\* and the run writes no challenge response.
C5_EarlyAuthTrue ==
  \A k \in DOMAIN chalRx :
    ((\A j \in 1..k : ~IsChallenge(chalRx[j])) /\ StatusTrue(chalRx[k])) =>
       /\ k = Len(chalRx)
       /\ confRx = <<>>
       /\ pc \in {"idle", "end"}
       /\ authRet = "authenticated" /\ authenticated
       /\ "response" \notin Labels(tx)

C5_Witness ==
  /\ chalRx # <<>> /\ ~IsChallenge(Last(chalRx)) /\ StatusTrue(Last(chalRx))
  /\ authenticated /\ "certificate" \in Labels(tx)

\* C6: the confirmation wait makes at most 5 receive attempts; timeouts and
\* frames without auth status are passed over; the first frame with auth
\* status true ends the run authenticated, the first with auth status false
\* ends it rejected, and 5 attempts with neither end it as a failure; the
\* flag is false in the last two cases.
C6_ConfirmationWait ==
  /\ pc = "a_conf" => (tries < 5 /\ authRet = "none" /\ ~authenticated)
  /\ \A k \in DOMAIN confRx :
       (StatusTrue(confRx[k]) \/ StatusFalse(confRx[k])) =>
          /\ k = Len(confRx)
          /\ pc # "a_conf" /\ tries < 5
          /\ StatusTrue(confRx[k]) => (authRet = "authenticated" /\ authenticated)
          /\ StatusFalse(confRx[k]) => (authRet = "rejected" /\ ~authenticated)
  /\ authRet = "no_confirmation" => ~authenticated
  /\ (authRet = "no_confirmation" /\ ncalls = 0) =>
       /\ tries = 5
       /\ \A k \in DOMAIN confRx : ~StatusTrue(confRx[k]) /\ ~StatusFalse(confRx[k])
  /\ (authRet = "rejected" /\ ncalls = 0) => (confRx # <<>> /\ StatusFalse(Last(confRx)))

\* the response was written, a frame without status was passed over and the
\* next frame rejected the handshake
C6_Witness ==
  /\ authRet = "rejected" /\ ncalls = 0
  /\ "response" \in Labels(tx)
  /\ Len(confRx) = 2 /\ confRx[1] = AckFrame

\* the loaded certificate carries an expiry earlier than the wall clock
CertificateExpired == creds.expiry.t = "uint" /\ creds.expiry.n < Now

\* C7 (as claimed): with an expired certificate loaded, no certificate
\* packet is written (main has no option that overrides the expiry check).
C7_ExpiredNeverSent ==
  CertificateExpired => "certificate" \notin Labels(tx)

\* C8: for every pair of signing key and certificate whose derived public
\* key differs from the certificate's p, load_credentials exits without
\* Credentials; in the exited process no address was scanned, no connection
\* made, no frame written, and no further step is possible.
\* what load_credentials does with each mismatching pair main may be given
MismatchExits ==
  \A seed \in {Seed1, Seed2}, other \in {Seed1, Seed2}, e \in {ExpiryPast, ExpiryNext} :
    Ed25519Public(seed) # Ed25519Public(other) =>
      /\ load_credentials(seed, CertWith(Ed25519Public(other), e)).status = "exit"
      /\ load_credentials(seed, CertWith(Ed25519Public(other), e)).creds = NoCreds
      /\ load_credentials(seed, CertNoExpiry(Ed25519Public(other))).status = "exit"

C8_MismatchFatal ==
  /\ pc = "start" => MismatchExits
  /\ pc = "exit" =>
       /\ creds = NoCreds /\ mac = "none"
       /\ ~link /\ ~connected /\ ~authenticated
       /\ tx = <<>> /\ nrx = 0
       /\ ~ENABLED Next

C8_Witness == pc = "exit"

\* the opcode table of the specification, by operation and argument
TableRow(c) ==
  CASE c.op = "unlock"              -> <<129, 0, 3, 1, 0, 160, 1>>
    [] c.op = "lock"                -> <<129, 0, 3, 1, 0, 160, 0>>
    [] c.op = "arm_alarm"           -> <<129, 0, 3, 1, 1, 160, 1>>
    [] c.op = "disarm_alarm"        -> <<129, 0, 3, 1, 1, 160, 0>>
    [] c.op = "trigger_alarm_sound" -> <<129, 0, 3, 1, 2, 160, 1>>
    [] c.op = "set_lights"          ->
         <<129, 0, 3, 1, 0, 107,
           IF c.mode = "off" THEN 0 ELSE IF c.mode = "on" THEN 1 ELSE 3>>
    [] c.op = "set_power_level"     -> <<129, 0, 3, 1, 0, 103, c.n>>
    [] c.op = "play_sound"          -> <<129, 0, 3, 1, 0, 33, c.n>>
    [] c.op = "bell_ding"           -> <<129, 0, 3, 2, 0, 160, 1>>
    [] c.op = "bell_double_ding"    -> <<129, 0, 3, 2, 0, 160, 2>>
    [] c.op = "horn_sound"          -> <<129, 0, 3, 2, 1, 160, 1>>
    [] c.op = "power_on_bike"       -> <<129, 0, 3, 3, 0, 160, 1>>
    [] c.op = "power_off_bike"      -> <<129, 0, 3, 3, 0, 160, 0>>
    [] c.op = "enable_boost"        -> <<129, 0, 3, 3, 1, 160, 1>>
    [] c.op = "disable_boost"       -> <<129, 0, 3, 3, 1, 160, 0>>

\* the parameters the specification calls valid
TableValid(c) ==
  /\ c.op = "set_power_level" => c.n \in 0..4
  /\ c.op = "set_lights" => c.mode \in {"off", "on", "auto"}

\* C9: on a connected, authenticated session every command operation with
\* valid parameters hands exactly one frame to the transport, the 7-byte row
\* of the opcode table for that operation and argument, whichever call of
\* the session it is (so two calls of one operation write the same bytes),
\* and writes nothing more until it returns.
C9_CommandFrames ==
  /\ [][(ncalls' # ncalls /\ authenticated /\ connected) =>
          \A c \in Calls :
            (TableValid(c) /\ Command(c)) =>
              /\ Len(tx') = 1
              /\ tx'[1].data = TableRow(c)
              /\ Len(tx'[1].data) = 7
              /\ pc' = "c_sleep"]_vars
  /\ [][(pc \in CmdPcs) => (tx' = tx)]_vars

\* the second command of a session has written its frame
C9_Witness ==
  /\ ncalls = 2 /\ pc = "c_recv" /\ Len(tx) = 1
  /\ tx[1].by.op = "enable_boost" /\ connected /\ authenticated

\* C10: on an authenticated session set_power_level with a level outside
\* 0..4 reports the range error and does nothing else (no frame written, no
\* inbound frame dequeued), and every level in 0..4 passes the check.
C10_PowerLevelRange ==
  [][(ncalls' # ncalls /\ authenticated) =>
       \A n \in LevelInputs :
         Command(Call("set_power_level", n, "")) =>
           IF n \in 0..4
           THEN report' = "started" /\ pc' = "c_sleep"
           ELSE /\ report' = "Power level must be 0-4"
                /\ tx' = <<>> /\ collRx' = <<>>
                /\ responses' = responses
                /\ pc' = "idle"]_vars

C10_Witness ==
  /\ report = "Power level must be 0-4"
  /\ authenticated /\ connected /\ responses # <<>> /\ pc = "idle"

\* C11 (as claimed): a frame written by set_lights was asked for with a mode
\* that is exactly "off", "on" or "auto", and its parameter byte is 0x00,
\* 0x01, 0x03 respectively; any other mode string writes nothing.
C11_ExactModes ==
  \A k \in DOMAIN tx :
    tx[k].by.op = "set_lights" =>
      /\ tx[k].by.mode \in {"off", "on", "auto"}
      /\ tx[k].data[7] = (CASE tx[k].by.mode = "off" -> 0
                            [] tx[k].by.mode = "on"  -> 1
                            [] OTHER                 -> 3)

\* C13 (as claimed): the certificate packet is [header, 0x00, L, 0x03]
\* followed by the payload (signature and record) unmodified, with L the
\* number of payload bytes.
C13_LengthByte ==
  \A k \in DOMAIN tx :
    tx[k].label = "certificate" =>
      /\ tx[k].data[2] = 0 /\ tx[k].data[4] = 3
      /\ SubSeq(tx[k].data, 5, Len(tx[k].data)) = creds.ca_signature \o creds.cert_cbor
      /\ tx[k].data[3] = Len(tx[k].data) - 4

\* verification of a signature against a public key, for the byte functions
\* that stand for Ed25519: the key pair is recovered from the public key
\* (7 * 183 = 1 modulo 256) and the signature recomputed
SeedOfPublic(pub) == [k \in 1..SeedLen |-> ((pub[k] + 256 - k) * 183) % 256]
Ed25519Verify(pub, msg, sig) == sig = Ed25519Sign(SeedOfPublic(pub), msg)

\* C14: the challenge response authenticate writes is [header, 0x00, 0x40,
\* 0x04] followed by 64 bytes, 68 in all; the 64 bytes are the signature by
\* the credential's private key over the 16 bytes [4,20) of the challenge
\* frame just dequeued, they verify against the credential's public key, and
\* on a session still connected the response is written.
C14_ChallengeResponse ==
  /\ \A k \in DOMAIN tx :
       tx[k].label = "response" =>
         /\ chalRx # <<>> /\ IsChallenge(Last(chalRx))
         /\ LET c == SubSeq(Last(chalRx), 5, 20)
                d == tx[k].data
            IN /\ Len(c) = 16
               /\ Len(d) = 68 /\ d[2] = 0 /\ d[3] = 64 /\ d[4] = 4
               /\ SubSeq(d, 5, 68) = Ed25519Sign(creds.private_key, c)
               /\ Ed25519Verify(creds.public_key, c, SubSeq(d, 5, 68))
  /\ (pc = "a_conf" /\ lostAt = "none") => "response" \in Labels(tx)

C14_Witness ==
  /\ pc = "a_conf" /\ "response" \in Labels(tx) /\ Last(chalRx) = ChallengeFrame
  /\ Len(chalRx) = 2

\* C16 (as claimed): the receive attempts of a run of authenticate are
\* bounded by a number fixed in advance; such a bound holds below the number
\* of frames a peer may send in the settle window, so the settle window
\* dequeues fewer frames than that.
C16_BoundedAttempts == Len(settleRx) < MaxNotify

\* C17: the challenge wait makes at most 10 receive attempts; a run that
\* leaves it without having dequeued a challenge frame or a frame with auth
\* status true has failed (timed out after 10 attempts, or disconnected),
\* wrote no challenge response, and authenticated is false.
C17_ChallengeWait ==
  /\ pc = "a_chal" =>
       (tries < 10 /\ authRet = "none" /\ ~authenticated /\ "response" \notin Labels(tx))
  /\ authRet = "no_challenge" => ~authenticated
  /\ (authRet = "no_challenge" /\ ncalls = 0) =>
       /\ tries = 10
       /\ \A k \in DOMAIN chalRx : ~IsChallenge(chalRx[k]) /\ ~StatusTrue(chalRx[k])
       /\ "response" \notin Labels(tx) /\ confRx = <<>>
  /\ (ncalls = 0 /\ pc \notin {"a_sleep", "a_drain", "a_echo", "a_chal"} /\ authRet # "none"
        /\ \A k \in DOMAIN chalRx : ~IsChallenge(chalRx[k]) /\ ~StatusTrue(chalRx[k])) =>
       /\ authRet \in {"no_challenge", "disconnected"}
       /\ ~authenticated /\ "response" \notin Labels(tx)

\* ten attempts were spent, some of them on frames that decided nothing
C17_Witness ==
  /\ authRet = "no_challenge" /\ ncalls = 0 /\ tries = 10
  /\ Len(chalRx) = 2 /\ "certificate" \in Labels(tx)

\* C18 (as claimed): the echo frame is byte for byte the last frame received
\* in the settle window, first byte included, and precedes the certificate.
C18_EchoVerbatim ==
  \A k \in DOMAIN tx :
    tx[k].label = "echo" =>
      /\ settleRx # <<>>
      /\ tx[k].data = Last(settleRx)
      /\ \A j \in DOMAIN tx : tx[j].label = "certificate" => k < j

\* the settle window of the run is over
SettleOver ==
  ncalls = 0 /\ (pc \in {"a_echo", "a_chal", "a_conf"} \/ (pc \in {"idle", "end"} /\ authRet # "none"))

\* C19: when the settle window ended with no frame received, authenticate
\* writes no echo frame; on a session connected at that moment the first
\* frame it writes is the certificate packet, whose first byte is 0x81.
C19_NoInitNoEcho ==
  (SettleOver /\ settleRx = <<>>) =>
     /\ "echo" \notin Labels(tx) /\ pc # "a_echo"
     /\ tx # <<>> => (tx[1].label = "certificate" /\ tx[1].data[1] = 129
                      /\ tx[1].data = build_auth_packet(creds))
     /\ lostAt \notin {"idle", "a_sleep", "a_drain"} => tx # <<>>

C19_Witness ==
  /\ SettleOver /\ settleRx = <<>> /\ pc = "a_conf"
  /\ Len(tx) = 2 /\ tx[1].label = "certificate"

\* C20: a notification appends its frame to the inbound queue, once and at
\* the tail, whatever the frame and wherever the running operation is
\* suspended; every other step leaves the queue alone or takes its head,
\* and a frame taken is the one the receiving loop gets.
C20_QueueOrder ==
  /\ [][(nrx' # nrx) =>
          /\ nrx' = nrx + 1
          /\ Len(responses') = Len(responses) + 1
          /\ SubSeq(responses', 1, Len(responses)) = responses
          /\ Last(responses') \in PeerFrames
          /\ pc' = pc]_vars
  /\ [][(nrx' = nrx) =>
          \/ responses' = responses
          \/ /\ responses # <<>> /\ responses' = Tail(responses)
             /\ CASE pc = "a_drain" -> settleRx' = Append(settleRx, Head(responses))
                  [] pc = "a_chal"  -> chalRx' = Append(chalRx, Head(responses))
                  [] pc = "a_conf"  -> confRx' = Append(confRx, Head(responses))
                  [] pc = "c_recv"  -> collRx' = Append(collRx, Head(responses))
                  [] OTHER          -> FALSE]_vars

\* three frames of different kinds arrived while operations were suspended
\* and came out in the order of arrival
C20_Witness ==
  /\ pc = "c_recv" /\ nrx = 3
  /\ collRx = <<AckFrame>> /\ responses = <<InitFrame>>

\* C12: once its frame is written a command dequeues at most 3 frames: each
\* receive attempt takes the head of the queue, the attempt that finds the
\* queue empty ends the operation, and so does the third frame; what is left
\* in the queue stays there in order, nothing more is written, and the
\* attempt is never blocked, so the operation completes with or without a
\* frame.
C12_CollectAtMostThree ==
  /\ [](/\ Len(collRx) <= 3
        /\ pc = "c_recv" => (tries = Len(collRx) /\ tries < 3 /\ ENABLED CommandCollect))
  /\ [][(pc = "c_recv" /\ nrx' = nrx /\ link' = link) =>
          /\ tx' = tx
          /\ IF responses = <<>>
             THEN /\ responses' = <<>> /\ collRx' = collRx
                  /\ pc' = "idle" /\ report' = "done"
             ELSE /\ responses' = Tail(responses)
                  /\ collRx' = Append(collRx, Head(responses))
                  /\ IF Len(collRx') = 3 THEN pc' = "idle" /\ report' = "done"
                     ELSE pc' = "c_recv"]_vars

\* four frames waited: three were collected, the fourth is still queued
C12_Witness ==
  /\ pc = "idle" /\ report = "done"
  /\ collRx = <<AckFrame, InitFrame, AckFrame>> /\ responses = <<InitFrame>>

\* what the specification extracts from frame f; None for no challenge
ChallengeOf(f) ==
  IF Len(f) >= 20 /\ f[3] = 16 /\ f[4] = 4 THEN SubSeq(f, 5, 20) ELSE None

\* C15: challenge extraction is total.  A frame of at least 20 bytes with
\* group 0x10 and subcommand 0x04 yields its bytes [4,20), 16 bytes,
\* whatever its first two bytes, and the response is signed over them; a
\* shorter frame or one of another group or subcommand yields no challenge:
\* the wait goes on and no response is written.
C15_ChallengeTotal ==
  /\ \A k \in DOMAIN responses : parse_challenge(responses[k]) = ChallengeOf(responses[k])
  /\ chalRx # <<>> =>
       IF ChallengeOf(chalRx[1]) # None
       THEN /\ Len(ChallengeOf(chalRx[1])) = 16
            /\ Len(chalRx) = 1 /\ pc # "a_chal"
            /\ lostAt # "a_chal" =>
                 \E k \in DOMAIN tx :
                   /\ tx[k].label = "response"
                   /\ SubSeq(tx[k].data, 5, Len(tx[k].data))
                        = Ed25519Sign(creds.private_key, ChallengeOf(chalRx[1]))
       ELSE "response" \notin Labels(tx) /\ confRx = <<>>

\* a 24-byte challenge frame with header bytes 82 FF was answered
C15_Witness ==
  /\ chalRx # <<>> /\ Len(chalRx[1]) = 24 /\ chalRx[1][1] = 130
  /\ "response" \in Labels(tx) /\ pc = "a_conf"

\* C23 (as claimed): in every reachable state of a running session
\* authenticated implies connected.
C23_AuthenticatedImpliesConnected == pc # "end" => (authenticated => connected)

\* C24 (as claimed): a frame that was in the queue before the certificate
\* packet was written never authenticates the session.  Under DelaySpec
\* every frame of the run is in the queue during the delay after the echo,
\* before the certificate is written, so authenticated stays false.
C24_StaleStatusIgnored == ~authenticated

\* C25 (as claimed): a frame with auth status false that was queued before
\* the challenge response was written does not end the handshake as
\* rejected.  Under DelaySpec every frame of the run is queued before the
\* response is written, so no run ends rejected.
C25_StaleRejectIgnored == authRet # "rejected"

\* C21: authenticated changes only in a step of authenticate, which sets it;
\* connected changes only in connect, which sets it, and in the transport's
\* disconnect callback, which clears it; no step of a command operation,
\* with its send and its recv, changes either flag.
C21_FlagOwners ==
  [][/\ (authenticated' # authenticated) =>
          (pc \in {"a_chal", "a_conf"} /\ authenticated' /\ authRet' = "authenticated")
     /\ (connected' # connected) =>
          \/ pc = "resolved" /\ connected'
          \/ link /\ ~link' /\ ~connected'
     /\ ((pc \in CmdPcs \/ ncalls' # ncalls) /\ link' = link) =>
          (connected' = connected /\ authenticated' = authenticated)]_vars

\* two commands ran to their end, the second having collected a frame, and
\* both flags are still set
C21_Witness ==
  /\ ncalls = 2 /\ pc = "idle" /\ report = "done"
  /\ collRx # <<>> /\ authenticated /\ connected

\* C22: an operation never writes two frames on one resumption: every frame
\* after the first of an operation is written by a step that resumes from
\* the sleep after the echo or from a receive attempt of the challenge loop,
\* and a step writes one frame at most.  A write that fails is caught inside
\* send and changes none of this.
C22_NoBackToBack ==
  [][/\ (ncalls' # ncalls) => Len(tx') <= 1
     /\ (ncalls' = ncalls /\ tx' # tx) =>
          /\ Len(tx') = Len(tx) + 1
          /\ SubSeq(tx', 1, Len(tx)) = tx
          /\ tx # <<>> => pc \in {"a_echo", "a_chal"}]_vars

\* echo, certificate and response were all written
C22_Witness ==
  /\ pc = "a_conf" /\ Len(tx) = 3
  /\ tx[1].label = "echo" /\ tx[2].label = "certificate" /\ tx[3].label = "response"

\* C26: a step hands a frame to the transport only when connected is true
\* at that step, in the handshake and in the commands, whatever the value
\* of authenticated.
C26_NoWriteWhenDisconnected ==
  [][((ncalls' # ncalls /\ tx' # <<>>) \/ (ncalls' = ncalls /\ tx' # tx)) => connected]_vars

\* a command passed the authenticated guard on a session that had lost its
\* connection, and wrote nothing
C26_Witness ==
  /\ pc = "c_sleep" /\ report = "started" /\ tx = <<>>
  /\ authenticated /\ ~connected

\* the labels of the frames written, in order
LabelSeq(log) == [k \in DOMAIN log |-> log[k].label]

\* the frame carries no auth status
NoStatus(f) == ~StatusTrue(f) /\ ~StatusFalse(f)

\* C27: the frames a run of authenticate writes are, in order, at most one
\* echo, one certificate packet and at most one challenge response; a run
\* that reaches the challenge wait has written the certificate; a response
\* is written only once a challenge frame was dequeued, and nothing is
\* written after it.
C27_FrameOrder ==
  ncalls = 0 =>
    /\ LabelSeq(tx) \in {<<>>, <<"echo">>, <<"certificate">>, <<"echo", "certificate">>,
                         <<"certificate", "response">>,
                         <<"echo", "certificate", "response">>}
    /\ pc \in {"a_chal", "a_conf"} => "certificate" \in Labels(tx)
    /\ "response" \in Labels(tx) => (chalRx # <<>> /\ IsChallenge(Last(chalRx)))

C27_Witness ==
  /\ ncalls = 0 /\ pc = "idle" /\ authRet = "rejected"
  /\ LabelSeq(tx) = <<"echo", "certificate", "response">>

\* C28: the settle window examines nothing: while it lasts nothing is
\* written and the run neither ends nor authenticates, whatever arrives;
\* once it is over its last frame is echoed (with the first byte set to
\* 0x81) and that is all its frames do: a response still needs a challenge
\* frame dequeued by the challenge loop, and authenticated an auth=true
\* frame dequeued by the challenge or the confirmation loop.
C28_SettleDiscards ==
  /\ pc \in {"a_sleep", "a_drain"} =>
       (tx = <<>> /\ ~authenticated /\ authRet = "none" /\ chalRx = <<>> /\ confRx = <<>>)
  /\ ncalls = 0 =>
       /\ \A k \in DOMAIN tx :
            tx[k].label = "echo" =>
              (k = 1 /\ settleRx # <<>> /\ tx[k].data = <<129>> \o Tail(Last(settleRx)))
       /\ "response" \in Labels(tx) => (chalRx # <<>> /\ IsChallenge(Last(chalRx)))
       /\ authenticated =>
            \/ chalRx # <<>> /\ StatusTrue(Last(chalRx))
            \/ confRx # <<>> /\ StatusTrue(Last(confRx))

\* a challenge frame and an auth=true frame arrived in the settle window,
\* and the run timed out waiting for a challenge
C28_Witness ==
  /\ ncalls = 0 /\ authRet = "no_challenge" /\ ~authenticated
  /\ settleRx = <<ChallengeFrame, AuthTrueFrame>> /\ chalRx = <<>>

\* C29: in the challenge wait a dequeued frame with auth status false ends
\* nothing: the run is not rejected by it, it has used one attempt like any
\* other result, and a challenge frame dequeued later is answered.
C29_FalseStatusSkipped ==
  /\ (chalRx # <<>> /\ StatusFalse(Last(chalRx)) /\ ~IsChallenge(Last(chalRx))) =>
       (pc # "a_conf" /\ authRet \in {"none", "no_challenge", "disconnected"} /\ confRx = <<>>)
  /\ pc = "a_chal" => Len(chalRx) <= tries
  /\ (ncalls = 0 /\ chalRx # <<>> /\ IsChallenge(Last(chalRx)) /\ lostAt \in {"none", "a_conf"}) =>
       "response" \in Labels(tx)

C29_Witness ==
  /\ chalRx = <<InitFrame, ChallengeFrame>> /\ "response" \in Labels(tx)
  /\ pc = "a_conf"

\* C30: on a session that keeps its connection, frames without auth status
\* and timeouts only use up attempts: a run that ends without authenticated
\* has spent all 10 attempts of the challenge wait with no challenge frame,
\* or all 5 of the confirmation wait with no status, or was rejected by a
\* frame with auth status false; and a run whose confirmation wait dequeued
\* an auth=true frame after frames without status is authenticated.
C30_InterleavingTolerated ==
  (AuthDone /\ lostAt = "none") =>
    /\ ~authenticated =>
         \/ /\ authRet = "no_challenge" /\ tries = 10
            /\ \A k \in DOMAIN chalRx : ~IsChallenge(chalRx[k]) /\ ~StatusTrue(chalRx[k])
         \/ /\ authRet = "no_confirmation" /\ tries = 5
            /\ \A k \in DOMAIN confRx : NoStatus(confRx[k])
         \/ /\ authRet = "rejected" /\ confRx # <<>> /\ StatusFalse(Last(confRx))
    /\ (\E k \in DOMAIN confRx :
          StatusTrue(confRx[k]) /\ \A j \in 1..(k - 1) : NoStatus(confRx[j])) => authenticated

\* a command frame came before the challenge, four timeouts before the
\* auth=true frame
C30_Witness ==
  /\ AuthDone /\ lostAt = "none" /\ authenticated
  /\ chalRx = <<AckFrame, ChallengeFrame>> /\ confRx = <<AuthTrueFrame>> /\ tries = 4

====
